---- MODULE Spec2Model ----
(***************************************************************************)
(* Model of the declaration parser of src/parse.rs: the token cursor, the  *)
(* pending output queue, the declaration-specifier resolver, the           *)
(* declarator engine, the parameter list parser and the declaration        *)
(* driver.  One action, Pull, models one call of Parser::next.             *)
(***************************************************************************)
EXTENDS Integers, Sequences, FiniteSets, TLC

VARIABLES
    form,           \* how the input was drawn: its family and its parts
    input,          \* the lexeme sequence the parser was constructed over
    tokens,         \* Parser.tokens: the lexemes not yet read from the lexer
    pending,        \* Parser.pending
    last_location,  \* Parser.last_location
    current,        \* Parser.current: the peeked token
    warns,          \* calls of utils::warn so far, in order
    lexerrs,        \* calls of utils::error so far (lexical errors), in order
    panicked,       \* an expect()/panic!() of the parser has fired
    queued,         \* every item put into Parser.pending, in the order put
    dequeued,       \* every item taken out of Parser.pending, in the order taken
    out,            \* the items Parser::next has returned so far, in order
    recorded,       \* every error the parser has built, in the order built
    ended           \* Parser::next has returned None (end of sequence)

vars == <<form, input, tokens, pending, last_location, current, warns, lexerrs,
          panicked, queued, dequeued, out, recorded, ended>>

\* Option<T>
None == <<>>
Some(x) == <<x>>
unwrap(o) == o[1]
unwrap_or(o, d) == IF o = None THEN d ELSE o[1]

----------------------------------------------------------------------------
\* Tokens.  A lexeme is [data, location]; data is a token or a lexical error.

LexError == "<lex error>"

DeclSpecifierKeywords ==
    {"unsigned", "signed", "void", "_Bool", "char", "short", "int", "long",
     "float", "double", "extern", "static", "auto", "register", "const",
     "volatile"}

Ids == {"a", "b", "c", "d", "x"}

is_qualifier(k) == k = "const" \/ k = "volatile"

StorageClass_try_from(k) ==
    CASE k = "extern" -> Some("Extern")
      [] k = "static" -> Some("Static")
      [] k = "auto" -> Some("Auto")
      [] k = "register" -> Some("Register")
      [] OTHER -> None

is_storage_class(k) == StorageClass_try_from(k) # None

is_decl_specifier(k) == k \in DeclSpecifierKeywords

Type_try_from(k) ==
    CASE k = "void" -> Some(<<"Void">>)
      [] k = "_Bool" -> Some(<<"Bool">>)
      [] k = "char" -> Some(<<"Char", TRUE>>)
      [] k = "short" -> Some(<<"Short", TRUE>>)
      [] k = "int" -> Some(<<"Int", TRUE>>)
      [] k = "long" -> Some(<<"Long", TRUE>>)
      [] k = "float" -> Some(<<"Float">>)
      [] k = "double" -> Some(<<"Double">>)
      [] OTHER -> None

Pointer(t, q) == <<"Pointer", t, q>>
Unbounded == <<"Unbounded">>
Fixed(e) == <<"Fixed", e>>
Array(t, size) == <<"Array", t, size>>
Function(ret, params, varargs) == <<"Function", ret, params, varargs>>

Qualifiers_NONE == [c_const |-> FALSE, volatile |-> FALSE]

ErrItem(location, msg) == [location |-> location, ok |-> FALSE, data |-> msg]
StmtItem(location, sym) == [location |-> location, ok |-> TRUE, data |-> sym]

\* An error the parser builds (`data: Err(..)`) is logged in recorded.
record(p, item) == [p EXCEPT !.recorded = Append(@, item)]

\* The VecDeque operations the parser uses on self.pending.  queued and
\* dequeued log what went in and what came out.
push_back(p, item) ==
    [p EXCEPT !.pending = Append(@, item), !.queued = Append(@, item)]

push_front(p, item) ==
    [p EXCEPT !.pending = <<item>> \o @, !.queued = Append(@, item)]

pop_front(p) ==
    IF p.pending = <<>>
    THEN [p |-> p, r |-> None]
    ELSE [p |-> [p EXCEPT !.pending = Tail(@),
                          !.dequeued = Append(@, Head(p.pending))],
          r |-> Some(Head(p.pending))]

append(p, items) ==
    [p EXCEPT !.pending = @ \o items, !.queued = @ \o items]

----------------------------------------------------------------------------
\* The token cursor.  Every operation takes the parser p (a record of the
\* fields and of the diagnostics issued so far) and returns [p, r]: the
\* parser afterwards and the value returned.

RECURSIVE next_token(_)
next_token(p) ==
    IF p.current # None
    THEN [p |-> [p EXCEPT !.current = None], r |-> p.current]
    ELSE IF p.tokens = <<>>
    THEN [p |-> p, r |-> None]
    ELSE LET lx == Head(p.tokens)
             q == [p EXCEPT !.tokens = Tail(p.tokens),
                            !.last_location = Some(lx.location)]
         IN IF lx.data # LexError
            THEN [p |-> q, r |-> Some(lx)]
            ELSE next_token([q EXCEPT !.lexerrs = Append(@, lx.location)])

\* peek_token storing the token next_token returned in `current`
peek_fill(n) == [p |-> [n.p EXCEPT !.current = n.r], r |-> n.r]

peek_token(p) ==
    IF p.current = None
    THEN peek_fill(next_token(p))
    ELSE [p |-> p, r |-> p.current]

\* Option::expect on last_location: panics when no location was recorded.
NoLocation == 0

\* next_location once it has peeked k
location_of(k) ==
    IF k.r # None
    THEN [p |-> k.p, r |-> unwrap(k.r).location]
    ELSE IF k.p.last_location # None
    THEN [p |-> k.p, r |-> unwrap(k.p.last_location)]
    ELSE [p |-> [k.p EXCEPT !.panicked = TRUE], r |-> NoLocation]

next_location(p) == location_of(peek_token(p))

\* match_any once it has peeked k
match_peeked(k, choices) ==
    IF k.r # None /\ unwrap(k.r).data \in choices
    THEN next_token(k.p)
    ELSE [p |-> k.p, r |-> None]

match_any(p, choices) == match_peeked(peek_token(p), choices)

match_next(p, next) == match_any(p, {next})

\* `self.pending.push_back(Locatable { location, data: Err(..) })`
push_back_error(p, item) == push_back(record(p, item), item)

\* expect having consumed the expected token: `(true, self.last_location...)`
expect_consumed(n) ==
    IF n.p.last_location # None
    THEN [p |-> n.p, r |-> <<TRUE, unwrap(n.p.last_location)>>]
    ELSE [p |-> [n.p EXCEPT !.panicked = TRUE], r |-> <<TRUE, NoLocation>>]

\* expect having queued its error: `(false, self.next_location())`
expect_reported(l) == [p |-> l.p, r |-> <<FALSE, l.r>>]

\* expect once it has peeked k
expect_peeked(k, next) ==
    IF k.r # None /\ unwrap(k.r).data = next
    THEN expect_consumed(next_token(k.p))
    ELSE IF k.r # None
    THEN expect_reported(next_location(push_back_error(k.p,
             ErrItem(unwrap(k.r).location,
                     <<"expected", next, unwrap(k.r).data>>))))
    ELSE IF k.p.last_location # None
    THEN [p |-> push_back_error(k.p,
                    ErrItem(unwrap(k.p.last_location),
                            <<"expected", next, "<end-of-file>">>)),
          r |-> <<FALSE, unwrap(k.p.last_location)>>]
    ELSE [p |-> [k.p EXCEPT !.panicked = TRUE], r |-> <<FALSE, NoLocation>>]

expect(p, next) == expect_peeked(peek_token(p), next)

warn(p, msg, location) ==
    [p EXCEPT !.warns = Append(@, [data |-> msg, location |-> location])]

----------------------------------------------------------------------------
\* The declaration-specifier resolver.  st is the record of the locals
\* storage_class, qualifiers, ctype, signed and errors of
\* declaration_specifiers (keywords is kept beside it).

push_error(st, msg, location) ==
    [st EXCEPT !.errors = Append(@, [data |-> msg, location |-> location])]

\* The name a base type is printed with in a message
Display(t) == t[1]

IsType(o, tags) == o # None /\ unwrap(o)[1] \in tags

declaration_specifier(keyword, st, location) ==
    IF keyword = "const"
    THEN [st EXCEPT !.qualifiers.c_const = TRUE]
    ELSE IF keyword = "volatile"
    THEN [st EXCEPT !.qualifiers.volatile = TRUE]
    ELSE IF keyword = "signed" \/ keyword = "unsigned"
    THEN LET s1 == IF IsType(st.ctype, {"Float", "Double"})
                   THEN push_error(st, <<"invalid modifier", keyword,
                                         Display(unwrap(st.ctype))>>, location)
                   ELSE st
         IN IF s1.signed = None
            THEN [s1 EXCEPT !.signed = Some(keyword = "signed")]
            ELSE push_error(s1, <<"types cannot be both signed and unsigned">>,
                            location)
    ELSE IF StorageClass_try_from(keyword) # None
    THEN IF st.storage_class = None
         THEN [st EXCEPT !.storage_class = StorageClass_try_from(keyword)]
         ELSE push_error(st, <<"multiple storage classes in declaration",
                               unwrap(st.storage_class),
                               unwrap(StorageClass_try_from(keyword))>>,
                         location)
    ELSE IF keyword = "float" \/ keyword = "double"
    THEN IF st.signed # None
         THEN push_error(st, <<"invalid modifier",
                               IF unwrap(st.signed) THEN "signed" ELSE "unsigned",
                               keyword>>, location)
         ELSE LET s1 == IF st.ctype = None
                        THEN st
                        ELSE IF IsType(st.ctype, {"Long"}) /\ keyword = "double"
                        THEN st
                        ELSE push_error(st, <<"cannot combine", keyword,
                                              Display(unwrap(st.ctype))>>, location)
              IN [s1 EXCEPT !.ctype = Type_try_from(keyword)]
    ELSE IF keyword = "void"
    THEN IF st.ctype # None
         THEN push_error(st, <<"cannot combine", "void",
                               Display(unwrap(st.ctype))>>, location)
         ELSE [st EXCEPT !.ctype = Some(<<"Void">>)]
    ELSE IF keyword = "int"
    THEN IF IsType(st.ctype, {"Char", "Short", "Long", "Int"})
         THEN st
         ELSE IF st.ctype # None
         THEN push_error(st, <<"cannot combine", "int",
                               Display(unwrap(st.ctype))>>, location)
         ELSE [st EXCEPT !.ctype = Some(<<"Int", TRUE>>)]
    ELSE IF st.ctype = None \/ IsType(st.ctype, {"Int"})
         THEN [st EXCEPT !.ctype = Type_try_from(keyword)]
         ELSE push_error(st, <<"cannot combine modifier", keyword,
                               Display(unwrap(st.ctype))>>, location)

\* specifier_step without the storage-class test of line 216: a repeated
\* storage-class keyword is taken for a repeated basic type
specifier_step_no_storage_class(p, keywords, st, keyword, location) ==
    IF keyword \notin keywords
    THEN [p |-> p, st |-> declaration_specifier(keyword, st, location)]
    ELSE IF is_qualifier(keyword)
            \/ keyword = "signed" \/ keyword = "unsigned"
    THEN [p |-> warn(p, <<"duplicate declaration specifier", keyword>>, location),
          st |-> st]
    ELSE IF keyword # "long"
    THEN [p |-> p,
          st |-> push_error(st, <<"duplicate basic type", keyword>>, location)]
    ELSE [p |-> p, st |-> st]

\* The body of the loop `while let Some(locatable) = self.peek_token()` for
\* one consumed keyword.
specifier_step(p, keywords, st, keyword, location) ==
    IF keyword \notin keywords
    THEN [p |-> p, st |-> declaration_specifier(keyword, st, location)]
    ELSE IF is_qualifier(keyword) \/ is_storage_class(keyword)
            \/ keyword = "signed" \/ keyword = "unsigned"
    THEN [p |-> warn(p, <<"duplicate declaration specifier", keyword>>, location),
          st |-> st]
    ELSE IF keyword # "long"
    THEN [p |-> p,
          st |-> push_error(st, <<"duplicate basic type", keyword>>, location)]
    ELSE [p |-> p, st |-> st]

RECURSIVE specifier_run(_, _, _)

\* The loop going on after the step s for one keyword
specifier_stepped(s, keywords) == specifier_run(s.p, keywords, s.st)

\* The loop having consumed the keyword n.r
specifier_taken(n, keywords, st) ==
    specifier_stepped(
        specifier_step(n.p, keywords, st,
                       unwrap(n.r).data, unwrap(n.r).location),
        keywords \cup {unwrap(n.r).data})

\* The loop condition on the peeked token k
specifier_peeked(k, keywords, st) ==
    IF k.r # None /\ is_decl_specifier(unwrap(k.r).data)
    THEN specifier_taken(next_token(k.p), keywords, st)
    ELSE [p |-> k.p, st |-> st]

specifier_run(p, keywords, st) ==
    specifier_peeked(peek_token(p), keywords, st)

\* queue_later_errors with push_back for push_front
RECURSIVE queue_later_errors_push_back(_, _)
queue_later_errors_push_back(p, errors) ==
    IF Len(errors) > 1
    THEN LET e == errors[Len(errors)]
         IN queue_later_errors_push_back(
                push_back(p, ErrItem(e.location, e.data)),
                SubSeq(errors, 1, Len(errors) - 1))
    ELSE p

\* `while errors.len() > 1 { pending.push_front(errors.pop()) }`
RECURSIVE queue_later_errors(_, _)
queue_later_errors(p, errors) ==
    IF Len(errors) > 1
    THEN LET e == errors[Len(errors)]
         IN queue_later_errors(push_front(p, ErrItem(e.location, e.data)),
                               SubSeq(errors, 1, Len(errors) - 1))
    ELSE p

\* The warning of the implicit int, at the location l.r
default_to_int(l) ==
    warn(l.p, <<"type specifier missing, defaults to int">>, l.r)

\* finalize_type leaving an integer type as Type::try_from made it, without
\* the `*s = signed.unwrap_or(true)` of line 248
finalize_type_keeps_sign(p, st) ==
    IF st.ctype # None
    THEN [p |-> p, r |-> unwrap(st.ctype)]
    ELSE [p |-> IF st.signed = None
                THEN default_to_int(next_location(p))
                ELSE p,
          r |-> <<"Int", unwrap_or(st.signed, TRUE)>>]

finalize_type(p, st) ==
    IF IsType(st.ctype, {"Char", "Short", "Int", "Long"})
    THEN [p |-> p, r |-> <<unwrap(st.ctype)[1], unwrap_or(st.signed, TRUE)>>]
    ELSE IF st.ctype # None
    THEN [p |-> p, r |-> unwrap(st.ctype)]
    ELSE [p |-> IF st.signed = None
                THEN default_to_int(next_location(p))
                ELSE p,
          r |-> <<"Int", unwrap_or(st.signed, TRUE)>>]

\* The locals of declaration_specifiers as initialised from start
specifier_start(start) ==
    [storage_class |-> StorageClass_try_from(start),
     qualifiers |-> [c_const |-> start = "const",
                     volatile |-> start = "volatile"],
     ctype |-> Type_try_from(start),
     signed |-> IF start = "signed" THEN Some(TRUE)
                ELSE IF start = "unsigned" THEN Some(FALSE)
                ELSE None,
     errors |-> <<>>]

\* The errors of a specifier run (`errors.push(..)`), logged in recorded
record_errors(p, errors) ==
    [p EXCEPT !.recorded =
        @ \o [i \in DOMAIN errors |->
                ErrItem(errors[i].location, errors[i].data)]]

\* `Ok((storage_class, qualifiers, ctype))` with the finalized type f.r
specifiers_finalized(f, st) ==
    [p |-> f.p,
     r |-> [ok |-> TRUE,
            sc |-> unwrap_or(st.storage_class, "Auto"),
            qualifiers |-> st.qualifiers,
            ctype |-> f.r]]

\* declaration_specifiers after its loop
specifiers_resolved(run) ==
    IF run.st.errors # <<>>
    THEN [p |-> queue_later_errors(record_errors(run.p, run.st.errors),
                                   run.st.errors),
          r |-> [ok |-> FALSE, err |-> run.st.errors[1]]]
    ELSE specifiers_finalized(finalize_type(run.p, run.st), run.st)

\* Returns r = [ok |-> TRUE, sc, qualifiers, ctype] or [ok |-> FALSE, err].
declaration_specifiers(p, start) ==
    specifiers_resolved(specifier_run(p, {start}, specifier_start(start)))

----------------------------------------------------------------------------
\* The declarator engine and the parameter list parser.  A declarator
\* result is [location, ok, data] with data = <<Option<id>, Type>> when ok
\* and the message otherwise.

parse_expr(p) ==
    [p |-> next_token(p).p, r |-> <<"Int", 10>>]

\* `while let Some(..) = self.match_any(&[Const, Volatile])` of the pointer
\* production.
RECURSIVE pointer_qualifiers(_, _)

\* The body of the loop for the matched token m.r
qualifier_matched(m, qualifiers) ==
    IF m.r = None
    THEN [p |-> m.p, r |-> qualifiers]
    ELSE IF unwrap(m.r).data = "const"
    THEN IF qualifiers.c_const
         THEN pointer_qualifiers(
                  warn(m.p, <<"duplicate 'const' declaration specifier">>,
                       unwrap(m.r).location), qualifiers)
         ELSE pointer_qualifiers(m.p, [qualifiers EXCEPT !.c_const = TRUE])
    ELSE IF qualifiers.volatile
         THEN pointer_qualifiers(
                  warn(m.p, <<"duplicate 'volatile' declaration specifier">>,
                       unwrap(m.r).location), qualifiers)
         ELSE pointer_qualifiers(m.p, [qualifiers EXCEPT !.volatile = TRUE])

pointer_qualifiers(p, qualifiers) ==
    qualifier_matched(match_any(p, {"const", "volatile"}), qualifiers)

Symbol(id, ctype, qualifiers, storage_class) ==
    [id |-> id, ctype |-> ctype, qualifiers |-> qualifiers,
     storage_class |-> storage_class]

RECURSIVE declarator(_, _, _), postfix_type(_, _), parameter_loop(_, _, _, _)

\* parameter_type_list after `(`, m being the match of an immediate `)`
parameter_list_opened(m, return_type) ==
    IF m.r # None
    THEN [p |-> m.p, r |-> Function(return_type, <<>>, FALSE)]
    ELSE parameter_loop(m.p, return_type, <<>>, <<>>)

parameter_type_list(p, return_type) ==
    parameter_list_opened(match_next(expect(p, "(").p, ")"), return_type)

\* The end of the list: `self.pending.append(&mut errs)` after expect(`)`)
parameter_closed(x, return_type, params, errs) ==
    [p |-> append(x.p, errs), r |-> Function(return_type, params, FALSE)]

\* `if self.match_next(Token::Comma).is_none()`, c being the match
parameter_separated(c, return_type, params, errs) ==
    IF c.r = None
    THEN parameter_closed(expect(c.p, ")"), return_type, params, errs)
    ELSE parameter_loop(c.p, return_type, params, errs)

\* The iteration after the declarator d of the parameter of specifiers ds
parameter_declared(ds, d, location, return_type, params, errs) ==
    LET sc == IF ds.r.ok THEN ds.r.sc ELSE "Auto"
        quals == IF ds.r.ok THEN ds.r.qualifiers ELSE Qualifiers_NONE
        errs2 == IF d.r.ok THEN errs
                 ELSE Append(errs, ErrItem(d.r.location, d.r.data))
        param_name == IF d.r.ok THEN d.r.data[1] ELSE None
        sc_error == ErrItem(location,
                        <<"cannot specify storage class", sc,
                          IF param_name # None THEN unwrap(param_name)
                          ELSE "unnamed parameter">>)
        errs3 == IF sc # "Auto" THEN Append(errs2, sc_error) ELSE errs2
        params1 == IF d.r.ok
                   THEN Append(params,
                            Symbol(unwrap_or(param_name, ""), d.r.data[2],
                                   quals, "Auto"))
                   ELSE params
    IN parameter_separated(
           match_next(IF sc # "Auto" THEN record(d.p, sc_error) ELSE d.p, ","),
           return_type, params1, errs3)

\* The iteration after the specifiers ds of the parameter
parameter_specified(ds, location, return_type, params, errs) ==
    parameter_declared(ds,
        declarator(ds.p, IF ds.r.ok THEN ds.r.ctype ELSE <<"Int", TRUE>>, TRUE),
        location, return_type, params, errs)

\* `let (start, location) = match self.peek_token()`, k being the peeked
\* token and l the next location
parameter_started(k, l, return_type, params, errs) ==
    IF k.r # None /\ is_decl_specifier(unwrap(k.r).data)
    THEN parameter_specified(
             declaration_specifiers(next_token(k.p).p, unwrap(k.r).data),
             unwrap(k.r).location, return_type, params, errs)
    ELSE parameter_specified(
             declaration_specifiers(
                 record(l.p, ErrItem(l.r,
                            <<"function parameters require types">>)),
                 "int"),
             l.r, return_type, params,
             Append(errs, ErrItem(l.r, <<"function parameters require types">>)))

parameter_peeked(k, return_type, params, errs) ==
    parameter_started(k, next_location(k.p), return_type, params, errs)

\* The iteration, m being the match of `...`
parameter_ellipsis(m, return_type, params, errs) ==
    IF m.r # None
    THEN LET errs1 == IF params = <<>>
                      THEN Append(errs, ErrItem(unwrap(m.r).location,
                               <<"ISO C requires a parameter before '...'">>))
                      ELSE errs
         \* errs is a local of the function and is dropped by this return
         IN [p |-> IF params = <<>>
                   THEN record(m.p, ErrItem(unwrap(m.r).location,
                            <<"ISO C requires a parameter before '...'">>))
                   ELSE m.p,
             r |-> Function(return_type, params, TRUE)]
    ELSE parameter_peeked(peek_token(m.p), return_type, params, errs)

\* One iteration of the `loop` of parameter_type_list.
parameter_loop(p, return_type, params, errs) ==
    parameter_ellipsis(match_next(p, "..."), return_type, params, errs)

\* `[` expr `]`, x being the parsed size
array_sized(x, prefix) ==
    postfix_type(expect(x.p, "]").p,
        [prefix EXCEPT !.data = <<prefix.data[1],
                                  Array(prefix.data[2], Fixed(x.r))>>])

\* After `[`, m being the match of an immediate `]`
array_bracket(m, prefix) ==
    IF m.r # None
    THEN postfix_type(m.p,
             [prefix EXCEPT !.data = <<prefix.data[1],
                                       Array(prefix.data[2], Unbounded)>>])
    ELSE array_sized(parse_expr(m.p), prefix)

\* After a parameter list of function type f.r
function_called(f, prefix) ==
    postfix_type(f.p, [prefix EXCEPT !.data = <<prefix.data[1], f.r>>])

\* postfix_type once it has peeked k
postfix_peeked(k, prefix) ==
    IF k.r # None /\ unwrap(k.r).data = "["
    THEN array_bracket(match_next(expect(k.p, "[").p, "]"), prefix)
    ELSE IF k.r # None /\ unwrap(k.r).data = "("
    THEN function_called(parameter_type_list(k.p, prefix.data[2]), prefix)
    ELSE [p |-> k.p,
          r |-> [location |-> prefix.location, ok |-> TRUE,
                 data |-> prefix.data]]

\* prefix is [location, data |-> <<Option<id>, Type>>]
postfix_type(p, prefix) == postfix_peeked(peek_token(p), prefix)

\* The group after expect(`)`): postfixes apply to the inner declarator
group_closed(inner, e) ==
    IF inner.r.ok
    THEN postfix_type(e.p, [location |-> inner.r.location,
                            data |-> inner.r.data])
    ELSE [p |-> e.p, r |-> inner.r]

group_inner(inner) == group_closed(inner, expect(inner.p, ")"))

\* group_declarator allowing an abstract declarator inside the parentheses
\* whatever its caller allows
group_declarator_abstract(p, ctype, allow_abstract) ==
    group_inner(declarator(next_token(p).p, ctype, TRUE))

\* The production `(` declarator `)`, the `(` being the next token
group_declarator(p, ctype, allow_abstract) ==
    group_inner(declarator(next_token(p).p, ctype, allow_abstract))

\* pointer_qualified wrapping the base type before it recurses, instead of
\* the type the recursion returns
pointer_qualified_wraps_base(q, ctype, allow_abstract) ==
    declarator(q.p, Pointer(ctype, q.r), allow_abstract)

\* pointer_declarator wrapping the base type before it recurses
pointer_declarator_wraps_base(p, ctype, allow_abstract) ==
    pointer_qualified_wraps_base(
        pointer_qualifiers(next_token(p).p, Qualifiers_NONE),
        ctype, allow_abstract)

\* The pointer wrapped around the type of the declarator d that follows it
pointer_pointed(q, d) ==
    IF d.r.ok
    THEN postfix_type(d.p, [location |-> d.r.location,
             data |-> <<d.r.data[1], Pointer(d.r.data[2], q.r)>>])
    ELSE d

\* After `*` and its qualifiers q.r
pointer_qualified(q, ctype, allow_abstract) ==
    pointer_pointed(q, declarator(q.p, ctype, allow_abstract))

\* The production `*` qualifiers declarator, the `*` being the next token
pointer_declarator(p, ctype, allow_abstract) ==
    pointer_qualified(pointer_qualifiers(next_token(p).p, Qualifiers_NONE),
                      ctype, allow_abstract)

\* declarator at the end of the input
declarator_at_end(l) ==
    [p |-> record(l.p, ErrItem(l.r, <<"expected type, got <end-of-file>">>)),
     r |-> ErrItem(l.r, <<"expected type, got <end-of-file>">>)]

\* declarator once it has peeked k
declarator_peeked(k, ctype, allow_abstract) ==
    IF k.r = None
    THEN declarator_at_end(next_location(k.p))
    ELSE IF unwrap(k.r).data = "("
    THEN group_declarator(k.p, ctype, allow_abstract)
    ELSE IF unwrap(k.r).data = "*"
    THEN pointer_declarator(k.p, ctype, allow_abstract)
    ELSE IF unwrap(k.r).data \in Ids
    THEN postfix_type(next_token(k.p).p,
             [location |-> unwrap(k.r).location,
              data |-> <<Some(unwrap(k.r).data), ctype>>])
    ELSE IF allow_abstract
    THEN postfix_type(k.p, [location |-> unwrap(k.r).location,
                            data |-> <<None, ctype>>])
    ELSE [p |-> record(k.p, ErrItem(unwrap(k.r).location,
                    <<"expected '(', '*', or identifier", unwrap(k.r).data>>)),
          r |-> ErrItem(unwrap(k.r).location,
                    <<"expected '(', '*', or identifier", unwrap(k.r).data>>)]

declarator(p, ctype, allow_abstract) ==
    declarator_peeked(peek_token(p), ctype, allow_abstract)

----------------------------------------------------------------------------
\* The declaration driver and Parser::next.

RECURSIVE declarator_list(_, _, _, _)

\* After a declarator, c being the match of `,`
list_separated(c, sc, qualifiers, ctype) ==
    IF c.r = None
    THEN expect(c.p, ";").p
    ELSE declarator_list(c.p, sc, qualifiers, ctype)

\* The declarator d queued as a declaration or as an error
list_declared(d, sc, qualifiers, ctype) ==
    list_separated(
        match_next(
            IF d.r.ok
            THEN IF d.r.data[1] # None
                 THEN push_back(d.p,
                          StmtItem(d.r.location,
                              Symbol(unwrap(d.r.data[1]), d.r.data[2],
                                     qualifiers, sc)))
                 ELSE [d.p EXCEPT !.panicked = TRUE]
            ELSE push_back(d.p, ErrItem(d.r.location, d.r.data)),
            ","),
        sc, qualifiers, ctype)

\* The loop condition, m being the match of `;`
list_started(m, sc, qualifiers, ctype) ==
    IF m.r # None
    THEN m.p
    ELSE list_declared(declarator(m.p, ctype, FALSE), sc, qualifiers, ctype)

\* The loop `while self.match_next(Token::Semicolon).is_none()` of
\* declaration; returns the parser afterwards.
declarator_list(p, sc, qualifiers, ctype) ==
    list_started(match_next(p, ";"), sc, qualifiers, ctype)

RECURSIVE next(_)

\* declaration_empty ending the sequence after its warning, instead of
\* going on with next
declaration_empty_ends(l) ==
    [p |-> warn(l.p, <<"declaration does not declare anything">>, l.r),
     r |-> None]

\* A declaration that queued nothing: warn and go on with next
declaration_empty(l) ==
    next(warn(l.p, <<"declaration does not declare anything">>, l.r))

\* `self.pending.pop_front().or_else(...)` after the declarator list
declaration_listed(q) ==
    IF q.pending # <<>>
    THEN pop_front(q)
    ELSE declaration_empty(next_location(q))

\* declaration after its specifiers ds
declaration_specified(ds) ==
    IF ~ds.r.ok
    THEN [p |-> ds.p, r |-> Some(ErrItem(ds.r.err.location, ds.r.err.data))]
    ELSE declaration_listed(
             declarator_list(ds.p, ds.r.sc, ds.r.qualifiers, ds.r.ctype))

declaration(p, start) ==
    declaration_specified(declaration_specifiers(p, start))

\* next once it has peeked k, without consuming a token it does not handle
next_peeked_unhandled(k) ==
    IF k.r = None
    THEN [p |-> k.p, r |-> None]
    ELSE IF is_decl_specifier(unwrap(k.r).data)
    THEN declaration(next_token(k.p).p, unwrap(k.r).data)
    ELSE [p |-> record(k.p, ErrItem(unwrap(k.r).location, <<"not handled">>)),
          r |-> Some(ErrItem(unwrap(k.r).location, <<"not handled">>))]

\* next peeking at a token it does not handle, instead of consuming it
next_peeks_unhandled(p) ==
    IF p.pending # <<>>
    THEN pop_front(p)
    ELSE next_peeked_unhandled(peek_token(p))

\* next once it has taken the token n.r
next_taken(n) ==
    IF n.r = None
    THEN [p |-> n.p, r |-> None]
    ELSE IF is_decl_specifier(unwrap(n.r).data)
    THEN declaration(n.p, unwrap(n.r).data)
    ELSE [p |-> record(n.p, ErrItem(unwrap(n.r).location, <<"not handled">>)),
          r |-> Some(ErrItem(unwrap(n.r).location, <<"not handled">>))]

\* next reading the input before it looks at the pending queue, which it
\* drains only at the end of the input
next_reads_first(p) ==
    IF p.pending # <<>> /\ peek_token(p).r = None
    THEN pop_front(p)
    ELSE next_taken(next_token(p))

next(p) ==
    IF p.pending # <<>>
    THEN pop_front(p)
    ELSE next_taken(next_token(p))

----------------------------------------------------------------------------
\* The state machine: Parser::new, then calls of Parser::next.

\* The lexer's output for a sequence of tokens: the i-th lexeme is at
\* location i.
Lex(toks) == [i \in 1..Len(toks) |-> [data |-> toks[i], location |-> i]]

\* Parser::new over the lexemes of toks
NewParser(toks) ==
    [tokens |-> Lex(toks), pending |-> <<>>, last_location |-> None,
     current |-> None, warns |-> <<>>, lexerrs |-> <<>>, panicked |-> FALSE,
     queued |-> <<>>, dequeued |-> <<>>, recorded |-> <<>>]

parser ==
    [tokens |-> tokens, pending |-> pending, last_location |-> last_location,
     current |-> current, warns |-> warns, lexerrs |-> lexerrs,
     panicked |-> panicked, queued |-> queued, dequeued |-> dequeued,
     recorded |-> recorded]

New(toks) ==
    /\ input = Lex(toks)
    /\ tokens = NewParser(toks).tokens
    /\ pending = NewParser(toks).pending
    /\ last_location = NewParser(toks).last_location
    /\ current = NewParser(toks).current
    /\ warns = NewParser(toks).warns
    /\ lexerrs = NewParser(toks).lexerrs
    /\ panicked = NewParser(toks).panicked
    /\ queued = NewParser(toks).queued
    /\ dequeued = NewParser(toks).dequeued
    /\ recorded = NewParser(toks).recorded
    /\ out = <<>>
    /\ ended = FALSE

\* One call of Parser::next by the consumer.  A panic unwinds the program:
\* no further call is made.
Pull ==
    /\ ~panicked
    /\ \E n \in {next(parser)} :
          /\ tokens' = n.p.tokens
          /\ pending' = n.p.pending
          /\ last_location' = n.p.last_location
          /\ current' = n.p.current
          /\ warns' = n.p.warns
          /\ lexerrs' = n.p.lexerrs
          /\ panicked' = n.p.panicked
          /\ queued' = n.p.queued
          /\ dequeued' = n.p.dequeued
          /\ recorded' = n.p.recorded
          /\ out' = IF n.r = None THEN out ELSE Append(out, unwrap(n.r))
          /\ ended' = (n.r = None)
    /\ UNCHANGED <<form, input>>

Next == Pull

\* Bounded sequences over a set
SeqsUpTo(S, n) == UNION {[1..k -> S] : k \in 0..n}

\* Token streams of every shape, lexical errors included
MaxLen == 4
StreamTokens == {"int", "char", "a", "(", ")", "*", ",", ";", "[", "...", LexError}

Init ==
    \E toks \in SeqsUpTo(StreamTokens, MaxLen) :
        /\ form = [family |-> "stream"]
        /\ New(toks)

Spec == Init /\ [][Next]_vars

\* The consumer keeps pulling: Parser::next is called again as long as a
\* call can change anything.  This is WF_vars(Pull) with ENABLED <<Pull>>_vars
\* written out: a call changes the state unless the program has panicked
\* or the sequence has ended.
FairSpec == Spec /\ ([]<><<Pull>>_vars \/ []<>(ended \/ panicked))

\* Specifier runs: every run of up to MaxRun decl-specifier keywords, in
\* front of one declarator and the terminator
MaxRun == 3
RunTail == <<"a", ";">>

InitSpecifiers ==
    \E kws \in SeqsUpTo(DeclSpecifierKeywords, MaxRun) \ {<<>>} :
        /\ form = [family |-> "run", run |-> kws]
        /\ New(kws \o RunTail)

SpecSpecifiers == InitSpecifiers /\ [][Next]_vars

RECURSIVE Concat(_)
Concat(seqs) == IF seqs = <<>> THEN <<>> ELSE Head(seqs) \o Concat(Tail(seqs))

\* One declarator: a base-type keyword, then up to MaxStars pointer
\* prefixes in front of the name, grouped in parentheses or not, then up to
\* MaxPostfix postfix productions, then the terminator
MaxStars == 2
MaxPostfix == 2
BaseKeywords ==
    {"void", "_Bool", "char", "short", "int", "long", "float", "double"}
ArrayShapes == {<<"[", "]">>, <<"[", "10", "]">>, <<"[", "2", "]">>}
FunctionShapes ==
    {<<"(", ")">>, <<"(", "...", ")">>, <<"(", "int", "x", ")">>,
     <<"(", "int", "x", ",", "...", ")">>}
PostfixShapes == ArrayShapes \cup FunctionShapes

DeclaratorTokens(stars, grouped, name, post) ==
    (IF grouped THEN <<"(">> ELSE <<>>)
    \o [i \in 1..stars |-> "*"] \o <<name>>
    \o (IF grouped THEN <<")">> ELSE <<>>)
    \o Concat(post)

InitDeclarator ==
    \E T \in BaseKeywords, stars \in 0..MaxStars, grouped \in BOOLEAN,
       post \in SeqsUpTo(PostfixShapes, MaxPostfix) :
        /\ form = [family |-> "declarator", base |-> T, stars |-> stars,
                   grouped |-> grouped, post |-> post]
        /\ New(<<T>> \o DeclaratorTokens(stars, grouped, "a", post) \o <<";">>)

SpecDeclarator == InitDeclarator /\ [][Next]_vars

\* One declaration: a specifier run, up to MaxDecls comma-separated
\* declarators, each of one of the kinds below and named after its
\* position, then the terminator or nothing
MaxDecls == 3
SpecifierRuns == {<<"int">>, <<"static", "const", "char">>, <<"char", "long">>}
WellFormedKinds == {"name", "pointer", "array", "function", "variadic"}
DeclaratorKinds ==
    WellFormedKinds \cup {"conflict", "literal", "missing"}
DeclNames == <<"a", "b", "c", "d">>
DeclName(i) == DeclNames[((i - 1) % Len(DeclNames)) + 1]

DeclaratorOfKind(kind, name) ==
    CASE kind = "name" -> <<name>>
      [] kind = "pointer" -> <<"*", name>>
      [] kind = "array" -> <<name, "[", "10", "]">>
      [] kind = "function" -> <<name, "(", "int", "x", ")">>
      [] kind = "variadic" -> <<name, "(", "int", "x", ",", "...", ")">>
      [] kind = "conflict" -> <<name, "(", "char", "char", "char", ")">>
      [] kind = "literal" -> <<"5">>
      [] kind = "missing" -> <<>>

RECURSIVE DeclaratorList(_, _)
DeclaratorList(kinds, i) ==
    IF i > Len(kinds) THEN <<>>
    ELSE DeclaratorOfKind(kinds[i], DeclName(i))
         \o (IF i < Len(kinds) THEN <<",">> ELSE <<>>)
         \o DeclaratorList(kinds, i + 1)

InitDeclaration ==
    \E run \in SpecifierRuns, kinds \in SeqsUpTo(DeclaratorKinds, MaxDecls),
       term \in {<<";">>, <<>>} :
        /\ form = [family |-> "declaration", run |-> run, kinds |-> kinds,
                   term |-> term]
        /\ New(run \o DeclaratorList(kinds, 1) \o term)

SpecDeclaration == InitDeclaration /\ [][Next]_vars

----------------------------------------------------------------------------
\* Vocabulary of the properties

Range(s) == {s[i] : i \in DOMAIN s}
Data(lexemes) == [i \in DOMAIN lexemes |-> lexemes[i].data]

\* The specifier run a stream starts with
RunLen(toks) ==
    IF \A i \in DOMAIN toks : is_decl_specifier(toks[i])
    THEN Len(toks)
    ELSE (CHOOSE n \in DOMAIN toks :
             /\ ~is_decl_specifier(toks[n])
             /\ \A i \in 1..(n - 1) : is_decl_specifier(toks[i])) - 1
Run == SubSeq(Data(input), 1, RunLen(Data(input)))

Orderings(s) ==
    {[i \in DOMAIN s |-> s[f[i]]] :
        f \in {g \in [DOMAIN s -> DOMAIN s] : \A i, j \in DOMAIN s :
                                                  g[i] = g[j] => i = j}}
Insert(s, i, x) == SubSeq(s, 1, i) \o <<x>> \o SubSeq(s, i + 1, Len(s))

\* What the driver's call of declaration_specifiers does with the run kws
\* of a fresh parser over kws followed by RunTail
Resolution(kws) ==
    declaration_specifiers(next_token(NewParser(kws \o RunTail)).p, kws[1])
SameTriple(r, sym) ==
    /\ r.ok
    /\ r.sc = sym.storage_class
    /\ r.qualifiers = sym.qualifiers
    /\ r.ctype = sym.ctype
\* The errors the run kws records, in the order recorded
RecordedErrors(kws) ==
    IF kws = <<>> THEN <<>>
    ELSE specifier_run(next_token(NewParser(kws \o RunTail)).p, {kws[1]},
                       specifier_start(kws[1])).st.errors
Items(errors) ==
    [i \in DOMAIN errors |-> ErrItem(errors[i].location, errors[i].data)]

RepeatableKeywords ==
    {"const", "volatile", "extern", "static", "auto", "register", "signed",
     "unsigned"}
DuplicateWarnings(w) ==
    Cardinality({i \in DOMAIN w :
                    w[i].data[1] = "duplicate declaration specifier"})
Repeats(kws) ==
    {i \in DOMAIN kws : \E j \in 1..(i - 1) : kws[j] = kws[i]}

ItemEq(x, y) ==
    x.ok = y.ok /\ x.location = y.location /\ x.data = y.data
IsPrefix(s, t) ==
    Len(s) <= Len(t) /\ \A i \in DOMAIN s : ItemEq(s[i], t[i])
Statements(items) == SelectSeq(items, LAMBDA x : x.ok)
Errors(items) == SelectSeq(items, LAMBDA x : ~x.ok)

\* The type a lone base-type keyword denotes
BaseType(T) ==
    CASE T = "void" -> <<"Void">>
      [] T = "_Bool" -> <<"Bool">>
      [] T = "char" -> <<"Char", TRUE>>
      [] T = "short" -> <<"Short", TRUE>>
      [] T = "int" -> <<"Int", TRUE>>
      [] T = "long" -> <<"Long", TRUE>>
      [] T = "float" -> <<"Float">>
      [] T = "double" -> <<"Double">>
Parameter_x == Symbol("x", <<"Int", TRUE>>, Qualifiers_NONE, "Auto")

\* A type with the size expressions of its arrays left out
RECURSIVE Erase(_)
Erase(t) ==
    CASE t[1] = "Pointer" -> Pointer(Erase(t[2]), t[3])
      [] t[1] = "Array" -> Array(Erase(t[2]), <<t[3][1]>>)
      [] t[1] = "Function" -> Function(Erase(t[2]), t[3], t[4])
      [] OTHER -> t

\* What a postfix production makes of the type t, sizes left out
PostfixOn(shape, t) ==
    CASE shape = <<"[", "]">> -> Array(t, <<"Unbounded">>)
      [] shape \in {<<"[", "10", "]">>, <<"[", "2", "]">>} ->
            Array(t, <<"Fixed">>)
      [] shape = <<"(", ")">> -> Function(t, <<>>, FALSE)
      [] shape = <<"(", "...", ")">> -> Function(t, <<>>, TRUE)
      [] shape = <<"(", "int", "x", ")">> ->
            Function(t, <<Parameter_x>>, FALSE)
      [] shape = <<"(", "int", "x", ",", "...", ")">> ->
            Function(t, <<Parameter_x>>, TRUE)
RECURSIVE PostfixesOn(_, _)
PostfixesOn(post, t) ==
    IF post = <<>> THEN t
    ELSE PostfixesOn(Tail(post), PostfixOn(Head(post), t))
RECURSIVE Pointers(_, _)
Pointers(n, t) ==
    IF n = 0 THEN t ELSE Pointer(Pointers(n - 1, t), Qualifiers_NONE)

\* The type a declarator of a kind composes around the base type t
TypeOfKind(kind, t) ==
    CASE kind = "name" -> t
      [] kind = "pointer" -> Pointer(t, Qualifiers_NONE)
      [] kind = "array" -> Array(t, Fixed(<<"Int", 10>>))
      [] kind = "function" -> Function(t, <<Parameter_x>>, FALSE)
      [] kind = "variadic" -> Function(t, <<Parameter_x>>, TRUE)

\* Where the statement the input starts with ends
TerminatorAt ==
    IF \E i \in DOMAIN input : input[i].data = ";"
    THEN CHOOSE i \in DOMAIN input :
             /\ input[i].data = ";"
             /\ \A j \in 1..(i - 1) : input[j].data # ";"
    ELSE Len(input)

\* The tokens not yet consumed
Remaining == Len(tokens) + (IF current = None THEN 0 ELSE 1)

----------------------------------------------------------------------------
\* The properties

\* C1: a set of decl-specifier keywords that resolves without error in one
\* order resolves in every order, to the same (storage class, qualifiers,
\* type) and without error.
C1_OrderIndependent ==
    (/\ Len(out) = 1 /\ out[1].ok
     /\ Cardinality(Range(Run)) = Len(Run))
    => \A perm \in Orderings(Run) :
           SameTriple(Resolution(perm).r, out[1].data)

C3_OnePerDeclarator ==
    LET N == Len(form.kinds)
        shared == Resolution(form.run).r
        expected == [i \in 1..N |->
                        Symbol(DeclName(i),
                               TypeOfKind(form.kinds[i], shared.ctype),
                               shared.qualifiers, shared.sc)]
        got == Statements(out)
    IN (/\ N >= 1
        /\ Range(form.kinds) \subseteq WellFormedKinds
        /\ form.term = <<";">>
        /\ RecordedErrors(form.run) = <<>>)
       => /\ Len(got) <= N
          /\ \A i \in DOMAIN got : got[i].data = expected[i]
          /\ \A i, j \in DOMAIN got : i < j => got[i].location < got[j].location
          /\ Len(out) = 1 => out[1].ok
          /\ Len(out) = 1 =>
                [i \in DOMAIN Statements(pending) |->
                    Statements(pending)[i].data] = SubSeq(expected, 2, N)
          /\ ended => Len(got) = N

\* C4: a parameter list that starts with an ellipsis yields exactly one
\* 'ISO C requires a parameter before ...' error to the consumer, and a
\* declaration of type Function(return type, no parameters, variadic).
C4_EllipsisFirst ==
    (/\ form.stars = 0 /\ ~form.grouped
     /\ form.post = <<(<<"(", "...", ")">>)>>
     /\ ended)
    => /\ Len(SelectSeq(out, LAMBDA x :
              ~x.ok /\ x.data = <<"ISO C requires a parameter before '...'">>))
            = 1
       /\ Len(Statements(out)) = 1
       /\ Statements(out)[1].data.ctype
            = Function(BaseType(form.base), <<>>, TRUE)

\* C5: the pending queue is first-in-first-out: the items taken out of it
\* are, in order, the items put into it.
C5_Fifo ==
    IsPrefix(dequeued, queued)

\* C6: when the specifier run of a top-level declaration records k > 1
\* errors, the pull returns the first, the next k - 1 pulls return the others
\* in the order recorded and in source order while no further input is read,
\* and no declarator of the statement is parsed: what follows the run is
\* not handled.
C6_LaterErrorsQueued ==
    LET errs == Items(RecordedErrors(Run))
        k == Len(errs)
        n == Len(out)
    IN (k > 1 /\ n >= 1)
       => /\ \A i \in 1..n : i <= k => out[i] = errs[i]
          /\ \A i, j \in 1..n : i < j /\ j <= k
                => out[i].location <= out[j].location
          /\ n <= k => /\ pending = SubSeq(errs, n + 1, k)
                       /\ current = Some(input[Len(Run) + 1])
                       /\ tokens = SubSeq(input, Len(Run) + 2, Len(input))
          /\ \A i \in 1..n : i > k => out[i].data = <<"not handled">>
          /\ \A i \in 1..n : ~out[i].ok

C6_Witness ==
    /\ Len(RecordedErrors(Run)) = 3
    /\ Len(out) = 3
    /\ pending = <<>>

\* C10: in a specifier run that resolves without error every repeated
\* occurrence of a qualifier, storage-class or signedness keyword draws
\* exactly one 'duplicate declaration specifier' warning, and one more
\* occurrence of such a keyword of the run, inserted anywhere, leaves the
\* resolved (storage class, qualifiers, type) unchanged, records no error
\* and draws exactly one more warning.
C10_RepeatIdempotent ==
    (Len(out) = 1 /\ out[1].ok)
    => /\ DuplicateWarnings(warns)
            = Cardinality({i \in Repeats(Run) : Run[i] \in RepeatableKeywords})
       /\ \A k \in Range(Run) \cap RepeatableKeywords :
             \A i \in 0..Len(Run) :
                LET d == Resolution(Insert(Run, i, k))
                IN /\ SameTriple(d.r, out[1].data)
                   /\ DuplicateWarnings(d.p.warns)
                          = DuplicateWarnings(warns) + 1

C10_Witness ==
    /\ Len(out) = 1 /\ out[1].ok
    /\ DuplicateWarnings(warns) = 2
    /\ out[1].data.storage_class = "Static"

\* C7: when the specifier run of a top-level declaration records a conflict,
\* the pull yields an error and no declaration statement comes from the
\* tokens of that statement, up to and including its terminator.
C7_ConflictBlocksStatement ==
    (RecordedErrors(form.run) # <<>> /\ out # <<>>)
    => /\ ~out[1].ok
       /\ \A i \in DOMAIN out : out[i].ok => out[i].location > TerminatorAt

\* C8: a declarator that fails on a token that cannot start a declarator
\* fails alone: every later well-formed declarator of the statement still
\* yields its declaration statement.
C8_DeclaratorErrorIsLocal ==
    (/\ RecordedErrors(form.run) = <<>>
     /\ ended)
    => \A j \in DOMAIN form.kinds :
          (/\ form.kinds[j] \in WellFormedKinds
           /\ \E i \in 1..(j - 1) : form.kinds[i] = "literal"
           /\ \A i \in 1..(j - 1) :
                 form.kinds[i] \in {"literal", "name", "pointer", "array",
                                    "function"})
          => \E n \in DOMAIN out :
                out[n].ok /\ out[n].data.id = DeclName(j)

\* C9: a pull that finds the pending queue empty and input left consumes at
\* least one token, and repeated pulls eventually return end-of-sequence.
C9_Terminates ==
    /\ [][(pending = <<>> /\ Remaining > 0) => Remaining' < Remaining]_vars
    /\ <>ended

C9_Witness ==
    /\ ended
    /\ Len(input) >= 4
    /\ Statements(out) # <<>>
    /\ Len(Errors(out)) >= 2

\* The parser a pull would start from if the input began after the
\* terminator of the empty declaration the input starts with
AfterEmptyDeclaration ==
    [NewParser(<<>>) EXCEPT
        !.tokens = SubSeq(input, RunLen(Data(input)) + 2, Len(input)),
        !.last_location = Some(RunLen(Data(input)) + 1)]
EmptyDeclarationWarnings(w) ==
    Cardinality({i \in DOMAIN w :
                    w[i].data = <<"declaration does not declare anything">>})
SameItems(s, t) ==
    Len(s) = Len(t) /\ \A i \in DOMAIN s : ItemEq(s[i], t[i])
\* The input starts with an error-free specifier run and the terminator
EmptyDeclarationFirst ==
    /\ Run # <<>>
    /\ RecordedErrors(Run) = <<>>
    /\ Len(input) > Len(Run)
    /\ input[Len(Run) + 1].data = ";"
FirstPullDone == (Len(out) = 1 /\ ~ended) \/ (ended /\ out = <<>>)

\* C11: an error-free specifier run immediately followed by the terminator
\* yields no statement and no error for that statement and one 'declaration
\* does not declare anything' warning, and the same pull goes on with the
\* next top-level construct: it returns what a pull over the rest of the
\* input returns (end of sequence when nothing is left) and leaves the
\* parser where that pull leaves it.
C11_EmptyDeclaration ==
    (EmptyDeclarationFirst /\ FirstPullDone)
    => LET n == next(AfterEmptyDeclaration)
       IN /\ ~panicked
          /\ ended <=> n.r = None
          /\ out # <<>> => n.r # None /\ ItemEq(out[1], unwrap(n.r))
          /\ SameItems(pending, n.p.pending)
          /\ tokens = n.p.tokens
          /\ \A i \in DOMAIN out : out[i].location > Len(Run) + 1
          /\ \A i \in DOMAIN pending : pending[i].location > Len(Run) + 1
          /\ EmptyDeclarationWarnings(warns)
               = 1 + EmptyDeclarationWarnings(n.p.warns)

C11_Witness ==
    /\ Data(input) = <<"int", ";", "int", "a">>
    /\ Len(out) = 1
    /\ out[1].ok /\ out[1].location = 4
    /\ EmptyDeclarationWarnings(warns) = 1
    /\ Len(pending) = 1

\* The lexemes read from the lexer so far, and the tokens among them that
\* were consumed: all but the lexical errors and the token held in `current`
Read == SubSeq(input, 1, Len(input) - Len(tokens))
Consumed ==
    LET toks == SelectSeq(Read, LAMBDA lx : lx.data # LexError)
    IN IF current = None THEN toks ELSE SubSeq(toks, 1, Len(toks) - 1)
LastConsumed ==
    IF Consumed = <<>> THEN None ELSE Some(Consumed[Len(Consumed)].location)
AtEndOfFile(item) ==
    /\ ~item.ok
    /\ \/ item.data = <<"expected type, got <end-of-file>">>
       \/ item.data[Len(item.data)] = "<end-of-file>"

\* C12: the remembered last location is the location of the most recently
\* consumed token (none before the first is consumed): a peek, a failed
\* match or expect and a skipped lexical error leave it alone, and a
\* diagnostic issued at the end of the input is located at the last token
\* consumed.
C12_LastLocation ==
    /\ last_location = LastConsumed
    /\ \A i \in DOMAIN out :
          AtEndOfFile(out[i]) => Some(out[i].location) = LastConsumed

\* No token is left to read: only lexical errors, if anything
NoTokenLeft ==
    current = None /\ \A i \in DOMAIN tokens : tokens[i].data = LexError
\* The items a pull has just produced: the one it returned and the ones it
\* left in the queue
Yielded == IF Len(out') > Len(out) THEN <<out'[Len(out')]>> ELSE <<>>

\* C13: a pull reads the input only when the pending queue is empty; it
\* returns end of sequence exactly when no token is left and the queue is
\* empty; and so the results of a statement all come out before those of a
\* later one: when a pull reads the input, nothing yielded before is located
\* after anything that pull returns or queues.
C13_DrainedFirst ==
    [][/\ pending # <<>> => (tokens' = tokens /\ current' = current)
       /\ (pending = <<>> /\ NoTokenLeft) => ended'
       /\ ended' => (pending = <<>> /\ Remaining' = 0 /\ pending' = <<>>)
       /\ Remaining' < Remaining =>
             \A i \in DOMAIN out :
                /\ \A j \in DOMAIN Yielded :
                      out[i].location <= Yielded[j].location
                /\ \A j \in DOMAIN pending' :
                      out[i].location <= pending'[j].location]_vars

C13_Witness ==
    /\ Len(dequeued) >= 2
    /\ Len(out) >= 3
    /\ Data(input) = <<"int", "a", "a", "a">>
    /\ ~out[3].ok /\ out[3].location = 3

\* What declarator, called where an identifier is required, returns from
\* the cursor's present position
RequiredDeclarator == declarator(parser, <<"Int", TRUE>>, FALSE).r

\* C14: no token stream drives a pull into a panic: next_location and
\* expect are never run at the end of the input with no location recorded,
\* the driver never gets a declarator without a name, and from any cursor
\* position declarator with allow_abstract = false returns an error or a
\* type with an identifier, through groups and pointers.
C14_NoPanic ==
    /\ ~panicked
    /\ ~RequiredDeclarator.ok \/ RequiredDeclarator.data[1] # None
    /\ \A i \in DOMAIN out : out[i].ok => out[i].data.id \in Ids

C14_Witness ==
    /\ Data(input) = <<"int", "(", "*", ")">>
    /\ Len(out) = 1
    /\ ~out[1].ok /\ out[1].location = 4
    /\ out[1].data = <<"expected '(', '*', or identifier", ")">>
    /\ ~panicked

StorageClassKeywords == {k \in DeclSpecifierKeywords : is_storage_class(k)}
SignKeywords == {"signed", "unsigned"}
MissingTypeWarnings(w) ==
    Cardinality({i \in DOMAIN w :
                    w[i].data = <<"type specifier missing, defaults to int">>})

\* C15: for an error-free specifier run: with no base-type keyword the type
\* is Int and the 'type specifier missing, defaults to int' warning is
\* issued exactly when there is no signedness keyword either; a Char, Short,
\* Int or Long has the signedness that signed or unsigned gave, signed if
\* neither occurred; and the storage class is auto when the run has no
\* storage-class keyword.
C15_Finalization ==
    (RecordedErrors(form.run) = <<>> /\ out # <<>>)
    => LET kws == Range(form.run)
           given == "unsigned" \notin kws
       IN /\ out[1].ok
          /\ kws \cap BaseKeywords = {} =>
                /\ out[1].data.ctype = <<"Int", given>>
                /\ MissingTypeWarnings(warns)
                     = (IF kws \cap SignKeywords = {} THEN 1 ELSE 0)
          /\ out[1].data.ctype[1] \in {"Char", "Short", "Int", "Long"} =>
                out[1].data.ctype[2] = given
          /\ kws \cap StorageClassKeywords = {} =>
                out[1].data.storage_class = "Auto"

C15_Witness ==
    /\ form.run = <<"unsigned", "const">>
    /\ Len(out) = 1
    /\ out[1].data.ctype = <<"Int", FALSE>>
    /\ out[1].data.storage_class = "Auto"
    /\ warns = <<>>

\* The integer an integer-literal token denotes
LiteralValue(tok) ==
    CASE tok = "10" -> 10
      [] tok = "2" -> 2
\* What an array production makes of the type t
ArrayOn(shape, t) ==
    IF shape = <<"[", "]">>
    THEN Array(t, Unbounded)
    ELSE Array(t, Fixed(<<"Int", LiteralValue(shape[2])>>))
RECURSIVE ArraysOn(_, _)
ArraysOn(post, t) ==
    IF post = <<>> THEN t
    ELSE ArraysOn(Tail(post), ArrayOn(Head(post), t))

\* C16: after a name, `[ ]` rewraps the type as an unbounded array and
\* `[ n ]` as a fixed array whose size is the literal n between the
\* brackets; the bound takes exactly its own tokens, so the declaration is
\* the only result; consecutive productions nest left to right, the last
\* one outermost.
C16_ArrayPostfix ==
    (/\ form.stars = 0 /\ ~form.grouped
     /\ form.post # <<>>
     /\ Range(form.post) \subseteq ArrayShapes
     /\ out # <<>>)
    => /\ out[1].ok
       /\ out[1].data.ctype = ArraysOn(form.post, BaseType(form.base))
       /\ Len(out) = 1

Occurrences(items, item) ==
    Cardinality({i \in DOMAIN items : ItemEq(items[i], item)})

\* C17: no diagnostic is lost: once the sequence has ended, every error the
\* parser built (a conflict in the specifier run of a parameter, an error of
\* a parameter list, a declarator error, a missing-punctuation error) has
\* been yielded as an error item, as many times as it was built.
C17_NoDiagnosticLost ==
    ended => \A i \in DOMAIN recorded :
                 Occurrences(out, recorded[i])
                   >= Occurrences(recorded, recorded[i])

====
